---- MODULE Spec2Model ----
(***************************************************************************)
(* A model of imgurup (src/imgurup/__init__.py): one run of the program,   *)
(* from the import of the module (where the retry decorator is applied)    *)
(* through main() and Imgur.upload() to the exit of the process.           *)
(*                                                                         *)
(* Python values are modelled as strings; None is the string "None".  The  *)
(* server's responses, the user's answers to the prompts and the state of  *)
(* the file system are the inputs, drawn from small sets.                  *)
(***************************************************************************)
EXTENDS Integers, Sequences, FiniteSets, TLC

\* ------------------------------------------------------------------ bounds
\* The largest `tries` argument given to the retry decorator.
MaxTries == 3
\* The largest `delay` argument given to the retry decorator.
MaxDelay == 2
\* The largest number of albums the album list response holds.
MaxAlbums == 3

\* ------------------------------------------------------- program constants
None == "None"
\* A key that the config file does not hold.
Missing == "<missing>"
client_id == "55080e3fd8d0644"

\* The subclasses of Imgur that ImgurFactory.detect_env chooses from.
Classes == {"CLIImgur", "KDEImgur", "MacImgur", "ZenityImgur"}

\* ------------------------------------------------------------------ inputs
\* The `tries` argument in half units, so that a fractional argument (which
\* math.floor rounds down) is among the inputs: TriesArgs holds 2 * tries.
TriesArgs == (-2) .. (2 * MaxTries)
DelayArgs == 0 .. MaxDelay

\* The token pairs the token endpoint hands out.
TokenPairs == {<<"A", "R">>, <<"A2", "R2">>}

\* The content of ~/.imgurup.conf: whether section Token exists, its two
\* options (Missing when the option is not there) and the rest of the file.
ConfigFiles ==
  { c \in [ Token : BOOLEAN,
            access_token : {Missing, "A0"},
            refresh_token : {Missing, "R0"},
            other : {"", "[Other] K =  v"} ] :
      (~c.Token) => (c.access_token = Missing /\ c.refresh_token = Missing) }

\* A response of the token endpoint: a failure envelope, the tokens at the
\* top level of the JSON object (what result['access_token'] reads), or the
\* tokens wrapped in a {success, data} envelope.
TokenResponses ==
  { [has_success |-> TRUE, success |-> FALSE, top |-> FALSE,
     access_token |-> None, refresh_token |-> None] }
  \cup
  { [has_success |-> hs, success |-> TRUE, top |-> TRUE,
     access_token |-> p[1], refresh_token |-> p[2]] :
       hs \in BOOLEAN, p \in TokenPairs }
  \cup
  { [has_success |-> TRUE, success |-> TRUE, top |-> FALSE,
     access_token |-> p[1], refresh_token |-> p[2]] : p \in TokenPairs }

AlbumId(i) == "album" \o ToString(i)
AlbumList(n) == [i \in 1 .. n |-> [id |-> AlbumId(i)]]

\* A response of GET /3/account/me/albums.
AlbumResponses ==
  { [has_success |-> TRUE, success |-> FALSE, data |-> <<>>] }
  \cup
  { [has_success |-> TRUE, success |-> TRUE, data |-> AlbumList(n)] :
      n \in 0 .. MaxAlbums }

\* A link is a sequence of characters; the server may escape its slashes.
LinkPlain == <<"h", "/", "x">>
LinkEscaped == <<"h", "\\", "/", "x">>
NoLink == <<>>

\* A response of POST /3/image.
UploadResponses ==
  { [has_success |-> TRUE, success |-> FALSE, link |-> NoLink, deletehash |-> None] }
  \cup
  { [has_success |-> TRUE, success |-> TRUE, link |-> l, deletehash |-> "d1"] :
      l \in {LinkPlain, LinkEscaped} }

\* ------------------------------------------------------------------- state
VARIABLES
  pc,             \* the position of the process
  status,         \* the exit status, -1 while the process runs
  exc,            \* the uncaught exception that ended the process, or None
  cls,            \* the class of the imgur instance
  tries, delay,   \* retry's closure variables
  mtries,         \* f_retry's remaining tries
  image_path, anonymous, album_id,   \* upload's arguments and locals
  access_token, refresh_token,       \* self._access_token, self._refresh_token
  config,         \* the content of CONFIG_PATH
  ret,            \* the caller of request_new_tokens_and_update
  result,         \* the last response read (the local result / response)
  albums,         \* the album list request_album_list returned
  album_number,   \* the number the user picked in ask_album_id
  data, body, headers,               \* upload's request
  shown,          \* what show_link displayed
  error,          \* the message of show_error_and_exit
  trace,          \* the calls with an effect outside the process, in order
  sleeps          \* the arguments of time.sleep, in order

vars == << pc, status, exc, cls, tries, delay, mtries, image_path, anonymous,
           album_id, access_token, refresh_token, config, ret, result, albums,
           album_number, data, body, headers, shown, error, trace, sleeps >>

\* One entry of the trace: the call and the value it carried.
Ev(e, a) == [ev |-> e, arg |-> a]

NoResult == [has_success |-> FALSE, success |-> FALSE]
NoBody ==
  [fields |-> <<>>, files |-> <<>>, boundary |-> None, contents |-> <<>>,
   text |-> None]
NoHeaders ==
  [scheme |-> None, token |-> None, content_type |-> None,
   content_length |-> None]
NotShown == [link |-> NoLink, delete |-> None]

Init ==
  /\ pc = "import"
  /\ status = -1
  /\ exc = None
  /\ cls = None
  /\ tries = 0
  /\ delay = 0
  /\ mtries = 0
  /\ image_path = None
  /\ anonymous = TRUE
  /\ album_id = None
  /\ access_token = None
  /\ refresh_token = None
  /\ config \in ConfigFiles
  /\ ret = None
  /\ result = NoResult
  /\ albums = <<>>
  /\ album_number = 0
  /\ data = <<>>
  /\ body = NoBody
  /\ headers = NoHeaders
  /\ shown = NotShown
  /\ error = None
  /\ trace = <<>>
  /\ sleeps = <<>>

\* ------------------------------------------------------------ control flow
\* The process goes on at position p.
Goto(p, tr) ==
  /\ pc' = p
  /\ status' = status
  /\ exc' = exc
  /\ error' = error
  /\ trace' = tr

\* An exception nobody catches ends the process with status 1.
raise(e, tr) ==
  /\ pc' = "exit"
  /\ status' = 1
  /\ exc' = e
  /\ error' = error
  /\ trace' = tr

\* The exit that reports status 0 whatever it is given.
sys_exit_zero(st, tr) ==
  /\ pc' = "exit"
  /\ status' = 0
  /\ exc' = exc
  /\ error' = error
  /\ trace' = tr

\* sys.exit(st)
sys_exit(st, tr) ==
  /\ pc' = "exit"
  /\ status' = st
  /\ exc' = exc
  /\ error' = error
  /\ trace' = tr

\* CLIImgur returns None, the dialog classes return the dialog's command.
get_error_dialog_args(c) == IF c = "CLIImgur" THEN None ELSE "dialog"

show_error_and_exit(msg, tr) ==
  /\ pc' = "exit"
  /\ status' = 1
  /\ exc' = exc
  /\ error' = msg
  /\ trace' = tr \o (IF get_error_dialog_args(cls) # None
                       THEN <<Ev("error_dialog", msg)>> ELSE <<>>)
                 \o <<Ev("log_error", msg)>>

\* ---------------------------------------------------------------- helpers
\* math.floor of the argument t2 / 2.
floor(t2) == t2 \div 2

\* The decorator without its check of tries.
retry_raises_delay_only(t, d) == d <= 0

\* retry, lines 117-121: the arguments the decorator refuses.
retry_raises(t, d) == t < 0 \/ d <= 0

\* The loop with its bound off by one: it goes round while a try is left.
while_mtries_off_by_one(m) == m > 0

\* f_retry, line 128: the call is one of the loop's, not the last one.
while_mtries(m) == m > 1

\* The check that looks at the access token alone.
tokens_empty_access_only(a, r) == a = None

\* The check that asks for the PIN only when both tokens are missing.
tokens_empty_both(a, r) == a = None /\ r = None

\* upload(), line 509: a token is missing after the load.
tokens_empty(a, r) == a = None \/ r = None

\* is_success reading a missing or true 'success' as the failure.
is_success_inverted(response) == response.has_success /\ ~response.success

is_success(response) == ~(response.has_success /\ ~response.success)

\* ------------------------------------------------- SafeConfigParser values
\* Tokens with characters that SafeConfigParser treats specially, beside the
\* plain ones: a token is a string, chars gives its characters (a plain token
\* counts as one character block).
SpecialTokens == {"p%%q", "p%q", " s", "s", "%", "%(x)s"}

chars(t) ==
  CASE t = "p%%q" -> <<"p", "%", "%", "q">>
    [] t = "p%q" -> <<"p", "%", "q">>
    [] t = " s" -> <<" ", "s">>
    [] t = "%(x)s" -> <<"%", "(", "x", ")", "s">>
    [] OTHER -> <<t>>

\* The string with these characters.
string(cs) ==
  IF Len(cs) = 1 THEN cs[1] ELSE CHOOSE t \in SpecialTokens : chars(t) = cs

\* value.replace('%%', ''), SafeConfigParser.set
RECURSIVE drop_escaped(_)
drop_escaped(cs) ==
  IF Len(cs) < 2 THEN cs
  ELSE IF cs[1] = "%" /\ cs[2] = "%"
         THEN drop_escaped(SubSeq(cs, 3, Len(cs)))
         ELSE <<cs[1]>> \o drop_escaped(Tail(cs))

\* _interpvar_re.sub('', value): the references %(name)s are taken out.
RECURSIVE drop_references(_)
drop_references(cs) ==
  IF Len(cs) < 5 THEN cs
  ELSE IF cs[1] = "%" /\ cs[2] = "(" /\ cs[3] # ")" /\ cs[4] = ")" /\ cs[5] = "s"
         THEN drop_references(SubSeq(cs, 6, Len(cs)))
         ELSE <<cs[1]>> \o drop_references(Tail(cs))

\* SafeConfigParser.set accepts the value: no '%' is left over.
set_accepts(t) ==
  \A i \in DOMAIN drop_references(drop_escaped(chars(t))) :
     drop_references(drop_escaped(chars(t)))[i] # "%"

\* optval.strip(), when the file is read
RECURSIVE lstrip(_)
lstrip(cs) ==
  IF cs # <<>> /\ Head(cs) = " " THEN lstrip(Tail(cs)) ELSE cs

RECURSIVE rstrip(_)
rstrip(cs) ==
  IF cs # <<>> /\ cs[Len(cs)] = " " THEN rstrip(SubSeq(cs, 1, Len(cs) - 1)) ELSE cs

strip(cs) == rstrip(lstrip(cs))

\* _interpolate_some succeeds: every '%' starts '%%'.  A reference %(name)s
\* names no option of the file and raises, as a lone '%' does.
RECURSIVE interpolates(_)
interpolates(cs) ==
  IF cs = <<>> THEN TRUE
  ELSE IF cs[1] # "%" THEN interpolates(Tail(cs))
  ELSE IF Len(cs) >= 2 /\ cs[2] = "%" THEN interpolates(SubSeq(cs, 3, Len(cs)))
  ELSE FALSE

\* _interpolate_some: '%%' stands for '%'.
RECURSIVE interpolate(_)
interpolate(cs) ==
  IF cs = <<>> THEN <<>>
  ELSE IF cs[1] # "%" THEN <<cs[1]>> \o interpolate(Tail(cs))
  ELSE <<"%">> \o interpolate(SubSeq(cs, 3, Len(cs)))

\* parser.get('Token', option) under set_tokens_using_config's try/except:
\* None when the section or the option is missing or the value does not
\* interpolate.
parser_get(cfg, option) ==
  IF cfg.Token /\ cfg[option] # Missing /\ interpolates(strip(chars(cfg[option])))
    THEN string(interpolate(strip(chars(cfg[option]))))
    ELSE None

\* write_tokens_to_config succeeds: SafeConfigParser.set takes strings only,
\* with valid interpolation syntax, and the file must open for writing.
write_ok(a, r, writable) ==
  a # None /\ r # None /\ set_accepts(a) /\ set_accepts(r) /\ writable

\* What parser.read makes of the rest of the file: the options of its
\* sections, each <<section, option, value>>; optionxform puts the option
\* in lower case and the value is stripped.
parsed(other) ==
  CASE other = "" -> {}
    [] other = "[Other] k = v" -> {<<"Other", "k", "v">>}
    [] other = "[Other] K =  v" -> {<<"Other", "k", "v">>}

\* parser.write of what parser.read took in: "option = value" lines under
\* their section header.
rewritten(other) ==
  IF parsed(other) = {} THEN "" ELSE "[Other] k = v"

\* The write that opens a new file for the two tokens alone.
written_config_overwrite(cfg, a, r) ==
  [Token |-> TRUE, access_token |-> a, refresh_token |-> r, other |-> ""]

\* The write with the two tokens swapped.
written_config_swapped(cfg, a, r) ==
  [Token |-> TRUE, access_token |-> r, refresh_token |-> a, other |-> cfg.other]

\* The write that sets the access token only.
written_config_access_only(cfg, a, r) ==
  [Token |-> TRUE, access_token |-> a,
   refresh_token |-> IF cfg.Token THEN cfg.refresh_token ELSE Missing,
   other |-> cfg.other]

written_config(cfg, a, r) ==
  [Token |-> TRUE, access_token |-> a, refresh_token |-> r,
   other |-> rewritten(cfg.other)]

\* The caller going on with no write of the file.
write_tokens_to_config_skipped(writable, p, after) ==
  /\ config' = config
  /\ Goto(p, trace \o after)

\* write_tokens_to_config, and the position p the caller goes on at; `after`
\* are the caller's calls that follow the write in the same step.
write_tokens_to_config(writable, p, after) ==
  IF access_token' = None \/ refresh_token' = None
    THEN config' = config /\ raise("TypeError", trace)
    ELSE IF ~set_accepts(access_token') \/ ~set_accepts(refresh_token')
      THEN config' = config /\ raise("ValueError", trace)
    ELSE IF ~writable
      THEN config' = config /\ raise("IOError", trace)
      ELSE /\ config' = written_config(config, access_token', refresh_token')
           /\ Goto(p, trace \o <<Ev("write_config", access_token')>> \o after)

\* str.replace('\\', '')
replace(link) == SelectSeq(link, LAMBDA ch : ch # "\\")

\* ------------------------------------------------ _encode_multipart_data
\* A dict is the sequence of its <<key, value>> items in iteration order.
CRLF == "\r\n"

RECURSIVE repeat(_, _)
repeat(ch, n) == IF n = 0 THEN "" ELSE ch \o repeat(ch, n - 1)

\* random_string(length): range(length + 1) letters; the letters drawn are
\* all ch here.
random_string(length, ch) == repeat(ch, length + 1)

\* boundary = random_string(30)
Boundaries == { random_string(30, ch) : ch \in {"a", "Z"} }

\* What open(filename, 'rb').read() may return.
Contents == {"", "\r\nPNG"}

\* The content of the image a run uploads.
ImageContent == "\r\nPNG"

\* mimetypes.guess_type(filename)[0] or 'application/octet-stream'
get_content_type(filename) ==
  IF filename = "img.png" THEN "image/png" ELSE "application/octet-stream"

encode_field(boundary, item) ==
  << "--" \o boundary,
     "Content-Disposition: form-data; name=\"" \o item[1] \o "\"",
     "",
     item[2] >>

encode_file(boundary, item, content) ==
  << "--" \o boundary,
     "Content-Disposition: form-data; name=\"" \o item[1]
        \o "\"; filename=\"" \o item[2] \o "\"",
     "Content-Type: " \o get_content_type(item[2]),
     "",
     content >>

\* for name in data: lines.extend(encode_field(name))
RECURSIVE field_lines(_, _)
field_lines(boundary, d) ==
  IF d = <<>> THEN <<>>
  ELSE encode_field(boundary, Head(d)) \o field_lines(boundary, Tail(d))

\* for name in files: lines.extend(encode_file(name))
RECURSIVE file_lines(_, _, _)
file_lines(boundary, files, contents) ==
  IF files = <<>> THEN <<>>
  ELSE encode_file(boundary, Head(files), Head(contents))
         \o file_lines(boundary, Tail(files), Tail(contents))

\* sep.join(lines)
RECURSIVE join(_, _)
join(sep, lines) ==
  IF lines = <<>> THEN ""
  ELSE IF Len(lines) = 1 THEN lines[1]
  ELSE lines[1] \o sep \o join(sep, Tail(lines))

\* The length of the text before its last line break.
content_length_unclosed(text) == ToString(Len(text) - Len(CRLF))

\* str(len(body))
content_length(text) == ToString(Len(text))

\* The body _encode_multipart_data returns, with the boundary it drew and
\* the contents it read from the files.
encode_multipart_data(d, files, boundary, contents) ==
  [fields |-> d, files |-> files, boundary |-> boundary,
   contents |-> contents,
   text |-> join(CRLF, field_lines(boundary, d)
                         \o file_lines(boundary, files, contents)
                         \o <<"--" \o boundary \o "--", "">>)]

\* The headers _encode_multipart_data returns for a body, with the
\* Authorization header upload() adds.
multipart_headers(b, scheme, token) ==
  [scheme |-> scheme, token |-> token,
   content_type |-> "multipart/form-data; boundary=" \o b.boundary,
   content_length |-> content_length(b.text)]

\* data_map[number - 1] with Python's indexing: a negative index
\* counts from the end, an index outside the list raises IndexError.
index_ok(data_map, number) ==
  /\ number - 1 < Len(data_map)
  /\ number - 1 >= -Len(data_map)

get_album_id(data_map, number) ==
  IF number - 1 >= 0
    THEN data_map[number].id
    ELSE data_map[Len(data_map) + number].id

\* --------------------------------------------------------------- actions
\* The decorator retry(tries, delay), applied when the class body runs.
retry(t2, d) ==
  /\ pc = "import"
  /\ tries' = floor(t2)
  /\ delay' = d
  /\ IF retry_raises(floor(t2), d)
       THEN raise("ValueError", trace)
       ELSE Goto("main", trace)
  /\ UNCHANGED << result, album_number,
                  cls, mtries, image_path, anonymous, album_id, access_token,
                  refresh_token, config, ret, albums, data, body, headers,
                  shown, sleeps >>

\* main(): the arguments -f, -n, -d and the class detect_env chooses.
main(c, f, n, d) ==
  /\ pc = "main"
  /\ cls' = c
  /\ image_path' = f
  /\ anonymous' = n
  /\ album_id' = d
  /\ Goto("upload", trace)
  /\ UNCHANGED << result, album_number,
                  tries, delay, mtries, access_token, refresh_token, config,
                  ret, albums, data, body, headers, shown, sleeps >>

\* upload(), lines 497-501: the image path comes from the caller or the prompt.
upload ==
  /\ pc = "upload"
  /\ IF image_path = None
       THEN Goto("ask_image_path", trace)
       ELSE Goto("branch", trace)
  /\ UNCHANGED << result, album_number,
                  cls, tries, delay, mtries, image_path, anonymous, album_id,
                  access_token, refresh_token, config, ret, albums, data, body,
                  headers, shown, sleeps >>

\* What the user may type at CLIImgur's prompt or pick in the dialog: nothing,
\* a path, or (at the prompt) the Python literal of the blank string.
Typed == {"", "''", "img.png"}

\* eval of the line input() reads
eval(typed) == IF typed = "''" THEN "" ELSE typed

\* ask_image_path: the dialog classes strip the dialog's output and leave on
\* a blank one; CLIImgur evaluates the typed line with input() and returns
\* what it evaluates to.
ask_image_path(typed) ==
  /\ pc = "ask_image_path"
  /\ typed = "''" => cls = "CLIImgur"
  /\ IF cls = "CLIImgur"
       THEN IF typed = ""
              THEN image_path' = image_path
                   /\ raise("SyntaxError", trace \o <<Ev("ask_image_path", "")>>)
              ELSE image_path' = eval(typed)
                   /\ Goto("branch", trace \o <<Ev("ask_image_path", "")>>)
       ELSE IF typed = ""
              THEN image_path' = typed
                   /\ sys_exit(1, trace \o <<Ev("ask_image_path", "")>>)
              ELSE image_path' = typed
                   /\ Goto("branch", trace \o <<Ev("ask_image_path", "")>>)
  /\ UNCHANGED << result, album_number,
                  cls, tries, delay, mtries, anonymous, album_id, access_token,
                  refresh_token, config, ret, albums, data, body, headers,
                  shown, sleeps >>

\* upload(), lines 502-506: the anonymous branch builds the request.
upload_anonymous(readable, boundary) ==
  /\ pc = "branch"
  /\ anonymous
  /\ readable => image_path # ""
  /\ IF readable
       THEN /\ body' = encode_multipart_data(data, <<<<"image", image_path>>>>,
                                                boundary, <<ImageContent>>)
            /\ headers' = multipart_headers(body', "Client-ID", client_id)
            /\ Goto("send", trace \o <<Ev("open_image", image_path)>>)
       ELSE /\ body' = body
            /\ headers' = headers
            /\ raise("IOError", trace \o <<Ev("open_image", image_path)>>)
  /\ UNCHANGED << result, album_number,
                  cls, tries, delay, mtries, image_path, anonymous, album_id,
                  access_token, refresh_token, config, ret, albums, data,
                  shown, sleeps >>

\* upload(), lines 508-512: set_tokens_using_config, then auth() when a
\* token is missing.
upload_set_tokens ==
  /\ pc = "branch"
  /\ ~anonymous
  /\ access_token' = parser_get(config, "access_token")
  /\ refresh_token' = parser_get(config, "refresh_token")
  /\ IF tokens_empty(access_token', refresh_token')
       THEN Goto("auth", trace \o <<Ev("read_config", "")>>)
       ELSE Goto("album", trace \o <<Ev("read_config", "")>>)
  /\ UNCHANGED << result, album_number,
                  cls, tries, delay, mtries, image_path, anonymous, album_id,
                  config, ret, albums, data, body, headers, shown, sleeps >>

\* auth(), lines 301-316: ask the PIN and post it to the token endpoint.
auth ==
  /\ pc = "auth"
  /\ Goto("auth_response",
          trace \o <<Ev("ask_pin", ""), Ev("req_pin", "")>>)
  /\ UNCHANGED << result, album_number,
                  cls, tries, delay, mtries, image_path, anonymous, album_id,
                  access_token, refresh_token, config, ret, albums, data, body,
                  headers, shown, sleeps >>

\* auth(), lines 317-322, and upload(), line 513: the response of the PIN
\* exchange, then write_tokens_to_config.
auth_response(r, writable) ==
  /\ pc = "auth_response"
  /\ result' = r
  /\ IF is_success(r)
       THEN IF r.top
              THEN /\ access_token' = r.access_token
                   /\ refresh_token' = r.refresh_token
                   /\ write_tokens_to_config(writable, "album", <<>>)
              ELSE /\ access_token' = access_token
                   /\ refresh_token' = refresh_token
                   /\ config' = config
                   /\ raise("KeyError", trace)
       ELSE /\ access_token' = access_token
            /\ refresh_token' = refresh_token
            /\ config' = config
            /\ show_error_and_exit("Authorization error", trace)
  /\ UNCHANGED << album_number,
                  cls, tries, delay, mtries, image_path, anonymous, album_id,
                  ret, albums, data, body, headers, shown, sleeps >>

\* The branch that asks for the album list whatever the caller gave.
upload_album_always_lists ==
  /\ pc = "album"
  /\ mtries' = tries
  /\ data' = data
  /\ Goto("f_retry", trace)
  /\ UNCHANGED << result, album_number,
                  cls, tries, delay, image_path, anonymous, album_id,
                  access_token, refresh_token, config, ret, albums, body,
                  headers, shown, sleeps >>

\* upload(), lines 514-525: the album comes from the caller, or
\* request_album_list is called (f_retry, line 127).
upload_album ==
  /\ pc = "album"
  /\ IF album_id = None
       THEN /\ mtries' = tries
            /\ data' = data
            /\ Goto("f_retry", trace)
       ELSE /\ mtries' = mtries
            /\ data' = <<<<"album_id", album_id>>>>
            /\ Goto("encode", trace)
  /\ UNCHANGED << result, album_number,
                  cls, tries, delay, image_path, anonymous, album_id,
                  access_token, refresh_token, config, ret, albums, body,
                  headers, shown, sleeps >>

\* request_album_list, lines 210-224, called by f_retry (lines 129, 138).
request_album_list ==
  /\ pc = "f_retry"
  /\ IF access_token = None
       THEN /\ access_token' = parser_get(config, "access_token")
            /\ refresh_token' = parser_get(config, "refresh_token")
            /\ Goto("f_response",
                    trace \o <<Ev("read_config", ""),
                               Ev("req_albums", access_token')>>)
       ELSE /\ access_token' = access_token
            /\ refresh_token' = refresh_token
            /\ Goto("f_response", trace \o <<Ev("req_albums", access_token)>>)
  /\ UNCHANGED << result, album_number,
                  cls, tries, delay, mtries, image_path, anonymous, album_id,
                  config, ret, albums, data, body, headers, shown, sleeps >>

\* f_retry, lines 128-133 and 138-142: the response of the decorated call.
f_retry(r) ==
  /\ pc = "f_response"
  /\ result' = r
  /\ IF is_success(r)
       THEN /\ albums' = r.data
            /\ ret' = ret
            /\ Goto("ask_album_id", trace)
       ELSE IF while_mtries(mtries)
              THEN /\ albums' = albums
                   /\ ret' = "f_retry"
                   /\ Goto("refresh", trace)
              ELSE /\ albums' = albums
                   /\ ret' = ret
                   /\ show_error_and_exit("Error in request_album_list", trace)
  /\ UNCHANGED << album_number,
                  cls, tries, delay, mtries, image_path, anonymous, album_id,
                  access_token, refresh_token, config, data, body, headers,
                  shown, sleeps >>

\* The refresh that posts the refresh token in memory as it is, None or not.
request_new_tokens_unchecked ==
  /\ pc = "refresh"
  /\ access_token' = access_token
  /\ refresh_token' = refresh_token
  /\ Goto("refresh_response", trace \o <<Ev("req_refresh", refresh_token)>>)
  /\ UNCHANGED << result, album_number,
                  cls, tries, delay, mtries, image_path, anonymous, album_id,
                  config, ret, albums, data, body, headers, shown, sleeps >>

\* request_new_tokens_and_update, lines 251-259, and request_new_tokens.
request_new_tokens_and_update ==
  /\ pc = "refresh"
  /\ IF refresh_token = None
       THEN /\ access_token' = parser_get(config, "access_token")
            /\ refresh_token' = parser_get(config, "refresh_token")
            /\ IF refresh_token' = None
                 THEN show_error_and_exit(
                        "Can't read the value of refresh_token, you may have to authorize again",
                        trace \o <<Ev("read_config", "")>>)
                 ELSE Goto("refresh_response",
                           trace \o <<Ev("read_config", ""),
                                      Ev("req_refresh", refresh_token')>>)
       ELSE /\ access_token' = access_token
            /\ refresh_token' = refresh_token
            /\ Goto("refresh_response",
                    trace \o <<Ev("req_refresh", refresh_token)>>)
  /\ UNCHANGED << result, album_number,
                  cls, tries, delay, mtries, image_path, anonymous, album_id,
                  config, ret, albums, data, body, headers, shown, sleeps >>

\* request_new_tokens_and_update, lines 259-264: the response of the refresh.
request_new_tokens_response(r) ==
  /\ pc = "refresh_response"
  /\ result' = r
  /\ IF is_success(r)
       THEN IF r.top
              THEN /\ access_token' = r.access_token
                   /\ refresh_token' = r.refresh_token
                   /\ Goto(IF ret = "f_retry" THEN "f_reauthorized"
                                              ELSE "upload_reauthorized", trace)
              ELSE /\ access_token' = access_token
                   /\ refresh_token' = refresh_token
                   /\ raise("KeyError", trace)
       ELSE /\ access_token' = access_token
            /\ refresh_token' = refresh_token
            /\ show_error_and_exit("Update tokens fail", trace)
  /\ UNCHANGED << album_number,
                  cls, tries, delay, mtries, image_path, anonymous, album_id,
                  config, ret, albums, data, body, headers, shown, sleeps >>

\* The loop that does not count the try.
f_retry_reauthorized_uncounted(writable) ==
  /\ pc = "f_reauthorized"
  /\ access_token' = access_token
  /\ refresh_token' = refresh_token
  /\ write_tokens_to_config(writable, "f_retry",
                            <<Ev("sleep", ToString(delay))>>)
  /\ IF write_ok(access_token, refresh_token, writable)
       THEN sleeps' = Append(sleeps, delay) /\ mtries' = mtries
       ELSE sleeps' = sleeps /\ mtries' = mtries
  /\ UNCHANGED << result, album_number,
                  cls, tries, delay, image_path, anonymous, album_id, ret,
                  albums, data, body, headers, shown >>

\* f_retry, lines 135-137: write the tokens, sleep, count the try.
f_retry_reauthorized(writable) ==
  /\ pc = "f_reauthorized"
  /\ access_token' = access_token
  /\ refresh_token' = refresh_token
  /\ write_tokens_to_config(writable, "f_retry",
                            <<Ev("sleep", ToString(delay))>>)
  /\ IF write_ok(access_token, refresh_token, writable)
       THEN sleeps' = Append(sleeps, delay) /\ mtries' = mtries - 1
       ELSE sleeps' = sleeps /\ mtries' = mtries
  /\ UNCHANGED << result, album_number,
                  cls, tries, delay, image_path, anonymous, album_id, ret,
                  albums, data, body, headers, shown >>

\* The album the user picks: a blank answer or a number.
AlbumAnswers ==
  { [blank |-> TRUE, number |-> 0] }
  \cup { [blank |-> FALSE, number |-> k] :
           k \in (-(MaxAlbums + 2)) .. (MaxAlbums + 2) }

\* The entries the class's dialog lets the user pick from the n albums.
offered(c, n, answer) ==
  CASE c = "CLIImgur" -> TRUE
    [] c = "KDEImgur" -> answer.blank \/ answer.number \in 1 .. (n + 1)
    [] c = "MacImgur" -> answer.blank \/ answer.number \in 1 .. n
    [] OTHER -> answer.blank

\* The data_map the class builds: CLIImgur appends the "no album" entry.
data_map_of(c, list) ==
  IF c = "CLIImgur" THEN Append(list, [id |-> None]) ELSE list

\* ask_album_id of Imgur, CLIImgur and MacImgur, then upload(), lines 517-522.
ask_album_id(answer) ==
  /\ pc = "ask_album_id"
  /\ offered(cls, Len(albums), answer)
  /\ album_number' = IF answer.blank \/ cls = "ZenityImgur"
                       THEN album_number ELSE answer.number
  /\ LET tr == trace \o <<Ev("ask_album_id", "")>>
         data_map == data_map_of(cls, albums)
     IN CASE cls = "ZenityImgur" ->
               \* get_ask_album_id_dialog_args returns nothing: Popen(None)
               album_id' = album_id /\ data' = data /\ raise("TypeError", trace)
          [] cls = "CLIImgur" /\ answer.blank ->
               album_id' = album_id /\ data' = data /\ raise("SyntaxError", tr)
          [] cls = "MacImgur" /\ answer.blank ->
               \* the dialog prints "false": int("fals")
               album_id' = album_id /\ data' = data /\ raise("ValueError", tr)
          [] cls = "KDEImgur" /\ answer.blank ->
               /\ album_id' = album_id /\ data' = data
               /\ show_error_and_exit("Album number should not be empty", tr)
          [] OTHER ->
               IF index_ok(data_map, answer.number)
                 THEN /\ album_id' = get_album_id(data_map, answer.number)
                      /\ data' = IF album_id' # None
                                   THEN <<<<"album_id", album_id'>>>> ELSE data
                      /\ Goto("encode", tr)
                 ELSE album_id' = album_id /\ data' = data /\ raise("IndexError", tr)
  /\ UNCHANGED << result,
                  cls, tries, delay, mtries, image_path, anonymous,
                  access_token, refresh_token, config, ret, albums, body,
                  headers, shown, sleeps >>

\* upload(), lines 527-529: the authenticated branch builds the request.
upload_encode(readable, boundary) ==
  /\ pc = "encode"
  /\ readable => image_path # ""
  /\ IF readable
       THEN /\ body' = encode_multipart_data(data, <<<<"image", image_path>>>>,
                                                boundary, <<ImageContent>>)
            /\ headers' = multipart_headers(body', "Bearer", access_token)
            /\ Goto("send", trace \o <<Ev("open_image", image_path)>>)
       ELSE /\ body' = body
            /\ headers' = headers
            /\ raise("IOError", trace \o <<Ev("open_image", image_path)>>)
  /\ UNCHANGED << result, album_number,
                  cls, tries, delay, mtries, image_path, anonymous, album_id,
                  access_token, refresh_token, config, ret, albums, data,
                  shown, sleeps >>

\* upload(), line 531: the upload request.
upload_request ==
  /\ pc = "send"
  /\ Goto("upload_response", trace \o <<Ev("req_upload", headers.token)>>)
  /\ UNCHANGED << result, album_number,
                  cls, tries, delay, mtries, image_path, anonymous, album_id,
                  access_token, refresh_token, config, ret, albums, data, body,
                  headers, shown, sleeps >>

\* show_link: the link without its backslashes, and the delete link (which
\* MacImgur shows behind a button of the link's dialog).
show_link(r) ==
  /\ shown' = [link |-> replace(r.link), delete |-> r.deletehash]
  /\ sys_exit(0, trace \o <<Ev("show_link", "")>>)

\* The first response handled as the last one: no refresh, no second request.
upload_response_no_retry(r) ==
  /\ pc = "upload_response"
  /\ result' = r
  /\ ret' = ret
  /\ IF is_success(r)
       THEN show_link(r)
       ELSE shown' = shown /\ show_error_and_exit("Upload image error", trace)
  /\ UNCHANGED << album_number, cls, tries, delay, mtries, image_path,
                  anonymous, album_id, access_token, refresh_token, config,
                  albums, data, body, headers, sleeps >>

\* upload(), lines 532-535 and 541: the response of the first upload request.
upload_response(r) ==
  /\ pc = "upload_response"
  /\ result' = r
  /\ IF is_success(r)
       THEN ret' = ret /\ show_link(r)
       ELSE ret' = "upload" /\ shown' = shown /\ Goto("refresh", trace)
  /\ UNCHANGED << album_number,
                  cls, tries, delay, mtries, image_path, anonymous, album_id,
                  access_token, refresh_token, config, albums, data, body,
                  headers, sleeps >>

\* upload(), lines 536-537: write the tokens and send the request again.
upload_reauthorized(writable) ==
  /\ pc = "upload_reauthorized"
  /\ access_token' = access_token
  /\ refresh_token' = refresh_token
  /\ write_tokens_to_config(writable, "upload_response2",
                            <<Ev("req_upload", headers.token)>>)
  /\ UNCHANGED << result, album_number,
                  cls, tries, delay, mtries, image_path, anonymous, album_id,
                  ret, albums, data, body, headers, shown, sleeps >>

\* upload(), lines 538-541: the response of the second upload request.
upload_response2(r) ==
  /\ pc = "upload_response2"
  /\ result' = r
  /\ IF is_success(r)
       THEN show_link(r)
       ELSE shown' = shown /\ show_error_and_exit("Upload image error", trace)
  /\ UNCHANGED << album_number,
                  cls, tries, delay, mtries, image_path, anonymous, album_id,
                  access_token, refresh_token, config, ret, albums, data, body,
                  headers, sleeps >>

Next ==
  \/ \E t2 \in TriesArgs, d \in DelayArgs : retry(t2, d)
  \/ \E c \in Classes, f \in {None, "img.png"}, n \in BOOLEAN,
        d \in {None, "preset"} : main(c, f, n, d)
  \/ upload
  \/ \E typed \in Typed : ask_image_path(typed)
  \/ \E readable \in BOOLEAN, boundary \in Boundaries :
        upload_anonymous(readable, boundary)
  \/ upload_set_tokens
  \/ auth
  \/ \E r \in TokenResponses, writable \in BOOLEAN : auth_response(r, writable)
  \/ upload_album
  \/ request_album_list
  \/ \E r \in AlbumResponses : f_retry(r)
  \/ request_new_tokens_and_update
  \/ \E r \in TokenResponses : request_new_tokens_response(r)
  \/ \E writable \in BOOLEAN : f_retry_reauthorized(writable)
  \/ \E answer \in AlbumAnswers : ask_album_id(answer)
  \/ \E readable \in BOOLEAN, boundary \in Boundaries :
        upload_encode(readable, boundary)
  \/ upload_request
  \/ \E r \in UploadResponses : upload_response(r)
  \/ \E writable \in BOOLEAN : upload_reauthorized(writable)
  \/ \E r \in UploadResponses : upload_response2(r)


\* ------------------------------------------------------------------ claims
\* The number of calls e in a trace.
Count(tr, e) == Len(SelectSeq(tr, LAMBDA x : x.ev = e))

\* The calls of a trace that are among the names in S.
Only(tr, S) == SelectSeq(tr, LAMBDA x : x.ev \in S)

\* The trace from its first call e on (empty when there is none).
RECURSIVE From(_, _)
From(tr, e) ==
  IF tr = <<>> THEN <<>>
  ELSE IF Head(tr).ev = e THEN tr ELSE From(Tail(tr), e)

\* request_album_list, decorated with N = tries >= 1, ended in the fatal error:
\* every call of it failed and every refresh succeeded.
RetryExhausted ==
  /\ pc = "exit"
  /\ error = "Error in request_album_list"
  /\ tries >= 1

AnonymousRun == pc \notin {"import", "main"} /\ anonymous

\* C2: in a run of upload with anonymous = TRUE the credential file is never
\* read (set_tokens_using_config) and never written (write_tokens_to_config).
C2_AnonymousNeverTouchesStore ==
  AnonymousRun =>
    /\ Count(trace, "read_config") = 0
    /\ Count(trace, "write_config") = 0

\* C3: an anonymous upload sends the upload request exactly once: after a
\* failure envelope the run is fatal at once (an error shown, status 1), with
\* no refresh and no second upload request.
C3_AnonymousSendsOnce ==
  AnonymousRun =>
    /\ Count(trace, "req_upload") <= 1
    /\ Count(trace, "req_refresh") = 0
    /\ (Count(trace, "req_upload") = 1 /\ pc # "upload_response"
          /\ result.has_success /\ ~result.success)
         => (pc = "exit" /\ status = 1 /\ error # None)

\* The decorator has run (retry's closure holds floor(tries)).
Decorated == pc # "import"

\* The decorator refused its arguments: the import failed, main() never ran.
ConfigRejected ==
  pc = "exit" /\ status = 1 /\ exc = "ValueError" /\ cls = None /\ trace = <<>>

\* C4 as stated: tries = 0 or negative is refused as a configuration error
\* and the decorated function is never called.
C4_ZeroOrNegativeRejected ==
  (Decorated /\ tries <= 0) => ConfigRejected

\* C4, amended: a negative tries is refused with ValueError before anything
\* is called; tries = 0 is accepted and the decorated function is then called
\* exactly once before the fatal error, with no refresh and no sleep.
C4_NegativeRejected ==
  /\ (Decorated /\ tries < 0) => ConfigRejected
  /\ (Decorated /\ tries = 0 /\ delay > 0) => ~ConfigRejected
  /\ (tries = 0 /\ pc = "exit" /\ error = "Error in request_album_list") =>
       /\ Count(trace, "req_albums") = 1
       /\ Count(trace, "req_refresh") = 0
       /\ sleeps = <<>>

C4_Witness == Decorated /\ tries < 0 /\ ConfigRejected

\* The decorated call's first response arrives.
FirstResponse == pc = "f_response" /\ Count(trace, "req_albums") = 1

\* C5: when the first call of the decorated function returns a success
\* envelope, f_retry returns the envelope's data at once: no refresh, no
\* sleep, no second call, and the tokens in memory and in the credential file
\* stay as they are.
C5_SuccessShortCircuit ==
  [][ /\ (pc = "f_retry" /\ Count(trace, "req_albums") = 0) =>
           /\ access_token' = access_token
           /\ refresh_token' = refresh_token
           /\ config' = config
           /\ sleeps' = sleeps
      /\ (FirstResponse /\ result'.has_success /\ result'.success) =>
        /\ pc' = "ask_album_id"
        /\ albums' = result'.data
        /\ trace' = trace
        /\ sleeps' = sleeps
        /\ mtries' = mtries
        /\ access_token' = access_token
        /\ refresh_token' = refresh_token
        /\ config' = config ]_vars

C5_Witness ==
  /\ pc = "ask_album_id"
  /\ Count(trace, "req_albums") = 1
  /\ result.has_success /\ result.success
  /\ tries = MaxTries
  /\ Len(albums) = MaxAlbums

\* The part of the run from the first upload request on.
UploadPart == From(trace, "req_upload")

\* The authenticated upload ended in the fatal error of the upload request:
\* every upload request failed and the refresh succeeded.
UploadExhausted ==
  pc = "exit" /\ ~anonymous /\ error = "Upload image error"

\* C6: an authenticated upload whose upload requests all fail (the refresh
\* succeeding) ends in the fatal error after exactly 2 upload requests and
\* exactly 1 refresh, with status 1 and no link shown.
C6_UploadFailsTwice ==
  UploadExhausted =>
    /\ Count(trace, "req_upload") = 2
    /\ Count(UploadPart, "req_refresh") = 1
    /\ Only(UploadPart, {"req_upload", "req_refresh"}) =
         << UploadPart[1], Ev("req_refresh", Only(UploadPart, {"req_refresh"})[1].arg),
            UploadPart[1] >>
    /\ status = 1
    /\ Count(trace, "show_link") = 0
    /\ shown = NotShown

C6_Witness == UploadExhausted /\ tries = 2 /\ Count(trace, "req_albums") = 1

\* The second upload request of an authenticated upload, sent after the one
\* refresh of stored tokens, was answered with a success envelope.
SecondAttemptSucceeded ==
  /\ pc = "exit"
  /\ ~anonymous
  /\ Count(trace, "req_pin") = 0
  /\ Count(trace, "req_refresh") = 1
  /\ Count(trace, "req_upload") = 2
  /\ result.has_success /\ result.success

\* C7: stale stored tokens, a failed first upload, a successful refresh and a
\* successful second upload: the link (without backslashes) and the delete
\* hash of that response are shown, the run ends with status 0, no error is
\* shown or logged, and the credential file holds the refreshed tokens.
C7_RefreshThenSuccess ==
  SecondAttemptSucceeded =>
    /\ status = 0
    /\ exc = None
    /\ shown.link = LinkPlain
    /\ shown.delete = result.deletehash
    /\ Count(trace, "show_link") = 1
    /\ error = None
    /\ Count(trace, "error_dialog") = 0
    /\ Count(trace, "log_error") = 0
    /\ <<access_token, refresh_token>> \in TokenPairs
    /\ config.Token
    /\ config.access_token = access_token
    /\ config.refresh_token = refresh_token

C7_Witness ==
  SecondAttemptSucceeded /\ result.link = LinkPlain /\ config.access_token = "A2"

\* The PIN exchange was answered, and nothing else since.
PinAnswered ==
  /\ Count(trace, "req_pin") = 1
  /\ pc \in {"album", "exit"}
  /\ trace[Len(trace)].ev \in {"req_pin", "write_config", "error_dialog", "log_error"}
  /\ Count(trace, "req_albums") = 0
  /\ Count(trace, "req_upload") = 0

\* C8 as stated: when the PIN exchange returns the envelope
\* {success: true, data: {access_token: "A", refresh_token: "R"}}, the
\* credential file afterward holds access_token = A and refresh_token = R.
C8_EnvelopedPinStored ==
  (PinAnswered /\ result.has_success /\ result.success /\ ~result.top
     /\ result.access_token = "A" /\ result.refresh_token = "R")
  => (config.Token /\ config.access_token = "A" /\ config.refresh_token = "R")

\* C8, amended: when the PIN exchange returns the tokens at the top level of
\* its JSON object (access_token: "A", refresh_token: "R", no success: false),
\* they become the tokens in memory and, the file being writable, section
\* Token of the credential file afterward holds them; the rest of the file is
\* kept.
C8_PinStored ==
  /\ (PinAnswered /\ pc = "album") =>
       /\ result.top
       /\ access_token = result.access_token
       /\ refresh_token = result.refresh_token
       /\ config.Token
       /\ config.access_token = result.access_token
       /\ config.refresh_token = result.refresh_token
  /\ (PinAnswered /\ pc = "exit" /\ result.top /\ is_success(result)) =>
       exc = "IOError"

C8_Witness ==
  /\ PinAnswered
  /\ pc = "album"
  /\ result.access_token = "A" /\ result.refresh_token = "R"
  /\ config = [Token |-> TRUE, access_token |-> "A", refresh_token |-> "R",
               other |-> ""]

\* Exactly one of the two tokens is set.
PartlySet == (access_token = None) # (refresh_token = None)

\* C9 as stated: the access token and the refresh token in memory are both
\* present or both absent in every reachable state.
C9_BothOrNeither == ~PartlySet

\* C9, amended: the two tokens in memory are both present or both absent,
\* except after the load of a credential file that holds exactly one of them:
\* memory then holds that one token, until a PIN exchange or a refresh
\* succeeds.  After a successful exchange, and at every list-albums request
\* and at every upload request of the authenticated branch, both are present.
C9_PartlySetOnlyFromFile ==
  /\ PartlySet =>
       /\ access_token = parser_get(config, "access_token")
       /\ refresh_token = parser_get(config, "refresh_token")
       /\ Count(trace, "write_config") = 0
       /\ Count(trace, "req_albums") = 0
       /\ anonymous \/ Count(trace, "req_upload") = 0
  /\ (pc \in {"album", "f_reauthorized", "upload_reauthorized"}
        \/ Count(trace, "write_config") > 0
        \/ Count(trace, "req_albums") > 0
        \/ (~anonymous /\ Count(trace, "req_upload") > 0)) =>
       (access_token # None /\ refresh_token # None)

C9_Witness == PartlySet /\ pc = "auth_response"

\* The user of CLIImgur or KDEImgur picked an entry the list offers: one of
\* the n albums, or entry n + 1, "Do not move to any album".
PickedOffered ==
  /\ Count(trace, "ask_album_id") = 1
  /\ cls \in {"CLIImgur", "KDEImgur"}
  /\ album_number \in 1 .. (Len(albums) + 1)

\* C10: picking k in 1 .. n yields the id of the k-th album, picking n + 1
\* yields no album id, and the upload body then has no album_id field.
C10_AlbumResolution ==
  PickedOffered =>
    /\ exc # "IndexError"
    /\ album_id = IF album_number <= Len(albums)
                    THEN albums[album_number].id ELSE None
    /\ (pc \in {"send", "upload_response", "upload_response2"}) =>
         body.fields = IF album_number <= Len(albums)
                         THEN <<<<"album_id", albums[album_number].id>>>> ELSE <<>>

\* The user picked a number outside the entries offered for the n albums:
\* 0, a negative number, or one above n + 1.
PickedOutOfRange ==
  /\ Count(trace, "ask_album_id") = 1
  /\ exc # "SyntaxError"
  /\ cls = "CLIImgur"
  /\ album_number \notin 1 .. (Len(albums) + 1)

\* C11: a selection outside the offered range is rejected and ends the run
\* with status 1: it resolves to no album id and to no "no album" choice, and
\* no upload request follows it.
C11_OutOfRangeRejected ==
  PickedOutOfRange =>
    /\ pc = "exit"
    /\ status = 1
    /\ Count(trace, "open_image") = 0
    /\ Count(trace, "req_upload") = 0

\* ------------------------------------------- the round trip of the tokens
\* write_tokens_to_config followed by set_tokens_using_config, for any two
\* tokens and any content of the file.
RoundTripTokens == {"A", "R"} \cup SpecialTokens

InitRoundTrip ==
  /\ pc = "save"
  /\ status = -1
  /\ exc = None
  /\ cls = "CLIImgur"
  /\ tries = 0
  /\ delay = 0
  /\ mtries = 0
  /\ image_path = None
  /\ anonymous = FALSE
  /\ album_id = None
  /\ access_token \in RoundTripTokens
  /\ refresh_token \in RoundTripTokens
  /\ config \in ConfigFiles
  /\ ret = None
  /\ result = NoResult
  /\ albums = <<>>
  /\ album_number = 0
  /\ data = <<>>
  /\ body = NoBody
  /\ headers = NoHeaders
  /\ shown = NotShown
  /\ error = None
  /\ trace = <<>>
  /\ sleeps = <<>>

\* write_tokens_to_config
save(writable) ==
  /\ pc = "save"
  /\ access_token' = access_token
  /\ refresh_token' = refresh_token
  /\ write_tokens_to_config(writable, "load", <<>>)
  /\ UNCHANGED << cls, tries, delay, mtries, image_path, anonymous, album_id,
                  ret, result, albums, album_number, data, body, headers,
                  shown, sleeps >>

\* set_tokens_using_config
load ==
  /\ pc = "load"
  /\ access_token' = parser_get(config, "access_token")
  /\ refresh_token' = parser_get(config, "refresh_token")
  /\ Goto("loaded", trace \o <<Ev("read_config", "")>>)
  /\ UNCHANGED << cls, tries, delay, mtries, image_path, anonymous, album_id,
                  config, ret, result, albums, album_number, data, body,
                  headers, shown, sleeps >>

NextRoundTrip ==
  \/ \E writable \in BOOLEAN : save(writable)
  \/ load

SpecRoundTrip == InitRoundTrip /\ [][NextRoundTrip]_vars

\* C12: for any two tokens that are not None, the load that follows the save
\* yields the pair that was saved, whatever the file held before.
C12_RoundTrip ==
  [][ pc = "load" =>
        /\ access_token' = access_token
        /\ refresh_token' = refresh_token ]_vars

\* C13: a save merges into the file.  The step that writes the file leaves
\* every option of every other section with the value it had, sets
\* Token.access_token and Token.refresh_token to the tokens in memory, and the
\* file changes in no other step.
C13_SaveMerges ==
  [][ /\ Count(trace', "write_config") > Count(trace, "write_config") =>
          /\ parsed(config'.other) = parsed(config.other)
          /\ config'.Token
          /\ config'.access_token = access_token'
          /\ config'.refresh_token = refresh_token'
      /\ config' # config =>
           Count(trace', "write_config") > Count(trace, "write_config") ]_vars

\* A file with another section was saved to, with new tokens.
C13_Witness ==
  /\ Count(trace, "write_config") >= 1
  /\ parsed(config.other) # {}
  /\ config.Token
  /\ config.access_token \notin {Missing, "A0"}
  /\ config.access_token = access_token

\* The link was shown: show_link ran, as the last call of the run.
LinkShown ==
  /\ Count(trace, "show_link") = 1
  /\ trace[Len(trace)].ev = "show_link"

\* C14: the link is shown at most once, and only for an upload response whose
\* envelope says success; a run ends with status 0 or 1, with 0 exactly when
\* the link was shown; a run that ends by an error message, an uncaught
\* exception or a cancelled dialog ends with status 1 and shows no link.
C14_ResultAndStatus ==
  /\ Count(trace, "show_link") <= 1
  /\ Count(trace, "show_link") = 1 =>
       /\ LinkShown
       /\ pc = "exit" /\ status = 0
       /\ Count(trace, "req_upload") >= 1
       /\ trace[Len(trace) - 1].ev = "req_upload"
       /\ result.has_success /\ result.success
       /\ shown = [link |-> replace(result.link), delete |-> result.deletehash]
       /\ error = None /\ exc = None
  /\ pc = "exit" =>
       /\ status \in {0, 1}
       /\ status = 0 <=> LinkShown
  /\ pc # "exit" => status = -1 /\ shown = NotShown
  /\ (error # None \/ exc # None) =>
       pc = "exit" /\ status = 1 /\ Count(trace, "show_link") = 0

\* A run that ended with the link shown, after a first upload was refused.
C14_Witness ==
  /\ LinkShown
  /\ status = 0
  /\ Count(trace, "req_upload") = 2

\* The prompt for the image path was answered with a blank path.
BlankPath ==
  /\ Count(trace, "ask_image_path") = 1
  /\ image_path = ""

\* C15: a blank answer to the prompt for the image path ends the run with a
\* status other than 0, with no error dialog, no request to the token, album
\* or upload endpoints and no read of a file, for every class, CLIImgur
\* included.
C15_BlankPathCancels ==
  BlankPath =>
    /\ pc = "exit"
    /\ status = 1
    /\ Count(trace, "error_dialog") = 0
    /\ Count(trace, "req_pin") = 0
    /\ Count(trace, "req_refresh") = 0
    /\ Count(trace, "req_albums") = 0
    /\ Count(trace, "req_upload") = 0
    /\ Count(trace, "open_image") = 0

\* --------------------------------------------- the encoder on its own
\* _encode_multipart_data for any fields and files: up to two of each, in
\* either order.
Fields == {<<"album_id", "a1">>, <<"album_id", "">>, <<"title", "t">>}
Files == {<<"image", "img.png">>, <<"doc", "notes">>}

\* The dicts with at most two of these items, in every iteration order.
Dicts(items) ==
  {<<>>} \cup { <<i>> : i \in items }
         \cup { <<p[1], p[2]>> : p \in { q \in items \X items : q[1][1] # q[2][1] } }

FieldLists == Dicts(Fields)
FileLists == Dicts(Files)

InitMultipart ==
  /\ pc = "encode_multipart"
  /\ status = -1
  /\ exc = None
  /\ cls = "CLIImgur"
  /\ tries = 0
  /\ delay = 0
  /\ mtries = 0
  /\ image_path = None
  /\ anonymous = FALSE
  /\ album_id = None
  /\ access_token = None
  /\ refresh_token = None
  /\ config = [Token |-> FALSE, access_token |-> Missing,
              refresh_token |-> Missing, other |-> ""]
  /\ ret = None
  /\ result = NoResult
  /\ albums = <<>>
  /\ album_number = 0
  /\ data \in FieldLists
  /\ body = NoBody
  /\ headers = NoHeaders
  /\ shown = NotShown
  /\ error = None
  /\ trace = <<>>
  /\ sleeps = <<>>

\* write_tokens_to_config

call_encode_multipart_data(files, boundary, contents) ==
  /\ pc = "encode_multipart"
  /\ body' = encode_multipart_data(data, files, boundary, contents)
  /\ headers' = multipart_headers(body', None, None)
  /\ Goto("encoded", trace)
  /\ UNCHANGED << cls, tries, delay, mtries, image_path, anonymous, album_id,
                  access_token, refresh_token, config, ret, result, albums,
                  album_number, data, shown, sleeps >>

NextMultipart ==
  \E files \in FileLists, boundary \in Boundaries :
    \E contents \in [1 .. Len(files) -> Contents] :
      call_encode_multipart_data(files, boundary, contents)

SpecMultipart == InitMultipart /\ [][NextMultipart]_vars

\* The part of a field, of a file, and the closing line, each line ended by
\* its line break.
FieldPart(b, item) ==
  "--" \o b \o CRLF
    \o "Content-Disposition: form-data; name=\"" \o item[1] \o "\"" \o CRLF
    \o CRLF
    \o item[2] \o CRLF

FilePart(b, item, content) ==
  "--" \o b \o CRLF
    \o "Content-Disposition: form-data; name=\"" \o item[1]
    \o "\"; filename=\"" \o item[2] \o "\"" \o CRLF
    \o "Content-Type: " \o get_content_type(item[2]) \o CRLF
    \o CRLF
    \o content \o CRLF

RECURSIVE FieldParts(_, _)
FieldParts(b, d) ==
  IF d = <<>> THEN "" ELSE FieldPart(b, Head(d)) \o FieldParts(b, Tail(d))

RECURSIVE FileParts(_, _, _)
FileParts(b, files, contents) ==
  IF files = <<>> THEN ""
  ELSE FilePart(b, Head(files), Head(contents))
         \o FileParts(b, Tail(files), Tail(contents))

\* The fields' parts in the order given, then the files' parts, then the
\* closing boundary line.
Assembled ==
  FieldParts(body.boundary, body.fields)
    \o FileParts(body.boundary, body.files, body.contents)
    \o "--" \o body.boundary \o "--" \o CRLF

\* C16: for every fields and files, the body the encoder returns is the
\* fields' parts in the order given, then the files' parts, then the closing
\* boundary line, and the content-length header is the exact length of that
\* body.
C16_ContentLength ==
  body # NoBody =>
    /\ body.text = Assembled
    /\ headers.content_length = ToString(Len(Assembled))
    /\ headers.content_length = ToString(Len(body.text))

\* A body of two fields and two files, one of them with content, was encoded.
C16_Witness ==
  /\ pc = "encoded"
  /\ Len(body.fields) = 2
  /\ Len(body.files) = 2
  /\ body.fields[1][1] = "title"
  /\ body.contents[1] # ""
  /\ headers.content_length = ToString(Len(body.text))

\* A request with a Bearer token (album list or upload) was just sent.
BearerRequestSent ==
  /\ ~anonymous
  /\ trace # <<>>
  /\ trace[Len(trace)].ev \in {"req_albums", "req_upload"}

\* C17: every request with a Bearer token, the upload sent again after a
\* refresh included, carries the access token held in memory at the moment
\* it is sent.
C17_NoStaleToken ==
  BearerRequestSent => trace[Len(trace)].arg = access_token

\* The names of the calls of a trace.
Names(seq) == [i \in 1 .. Len(seq) |-> seq[i].ev]

\* The steps of the retry of the upload: requests, refresh, save and delay.
UploadSteps ==
  Only(UploadPart, {"req_upload", "req_refresh", "write_config", "sleep"})

\* The authenticated upload was sent a second time.
UploadSentAgain ==
  /\ ~anonymous
  /\ Count(trace, "req_upload") = 2

\* C18: the authenticated upload goes through the steps of retry with 2
\* tries: the request, on a failure the refresh, the save, the sleep of delay
\* and the request again.
C18_UploadUnderRetryPolicy ==
  UploadSentAgain =>
    /\ Len(UploadSteps) >= 5
    /\ SubSeq(Names(UploadSteps), 1, 5) =
         <<"req_upload", "req_refresh", "write_config", "sleep", "req_upload">>
    /\ UploadSteps[4].arg = ToString(delay)

\* The tokens in memory were replaced by an exchange with the token endpoint.
TokenExchange == {"req_pin", "req_refresh"}
ApiCall == {"req_albums", "req_upload"}

\* C19: the tokens a PIN exchange or a refresh put in memory are saved before
\* the next API call: a write of the file lies between every exchange and
\* every later album or upload request, and at the moment of every request
\* with a Bearer token the two tokens of the file are the two in memory.
C19_SavedBeforeNextCall ==
  /\ ~anonymous =>
       \A i \in DOMAIN trace : \A j \in DOMAIN trace :
         (i < j /\ trace[i].ev \in TokenExchange /\ trace[j].ev \in ApiCall) =>
           \E k \in (i + 1) .. (j - 1) : trace[k].ev = "write_config"
  /\ BearerRequestSent =>
       /\ config.Token
       /\ config.access_token = access_token
       /\ config.refresh_token = refresh_token

\* The album list was requested again after a refresh replaced the tokens.
C19_Witness ==
  /\ BearerRequestSent
  /\ trace[Len(trace)].ev = "req_albums"
  /\ Count(trace, "req_refresh") = 1
  /\ access_token = "A" /\ config.access_token = "A"
  /\ refresh_token = "R" /\ config.refresh_token = "R"

\* The calls of the run that load, obtain, save or use the tokens.
CredentialSteps ==
  Only(trace, {"read_config", "ask_pin", "req_pin", "write_config",
               "req_refresh", "req_albums", "req_upload"})

\* The first album or upload request of an authenticated run was just sent.
FirstApiCallSent ==
  /\ BearerRequestSent
  /\ Len(Only(trace, ApiCall)) = 1

\* The load comes first; the first API call is sent either with no PIN flow,
\* the file loaded holding both tokens, or after the whole PIN flow: prompt
\* and exchange, then the save.
ResolutionOrder ==
  /\ (~anonymous /\ CredentialSteps # <<>>) =>
       CredentialSteps[1].ev = "read_config"
  /\ pc = "auth" =>
       /\ access_token = None \/ refresh_token = None
       /\ Names(CredentialSteps) = <<"read_config">>
  /\ FirstApiCallSent =>
       IF Count(trace, "req_pin") = 0
         THEN /\ Count(trace, "write_config") = 0
              /\ config.Token
              /\ config.access_token # Missing
              /\ config.refresh_token # Missing
         ELSE Names(CredentialSteps) \in
                { <<"read_config", "ask_pin", "req_pin", "write_config", call>> :
                    call \in ApiCall }

\* C20: an authenticated upload loads the tokens first; when a token is
\* missing after the load, the PIN is asked, exchanged and the tokens saved
\* before any album or upload request; a PIN exchange answered by a failure
\* envelope ends the run with status 1, with no save and no album or upload
\* request, then or later.
C20_ResolutionOrder ==
  [][ /\ ResolutionOrder'
      /\ pc # "exit"
      /\ (pc = "auth_response" /\ ~is_success(result')) =>
           /\ pc' = "exit"
           /\ status' = 1
           /\ config' = config
           /\ Count(trace', "write_config") = 0
           /\ Only(trace', ApiCall) = <<>> ]_vars

\* The PIN exchange was refused and the run ended.
C20_Witness ==
  /\ pc = "exit"
  /\ status = 1
  /\ Names(CredentialSteps) = <<"read_config", "ask_pin", "req_pin">>
  /\ result.has_success /\ ~result.success
  /\ error = "Authorization error"

\* The run ended on a refresh answered by a failure envelope.
RefreshRefused ==
  /\ pc = "exit"
  /\ error = "Update tokens fail"

\* The calls from the last refresh request on.
RECURSIVE FromLast(_, _)
FromLast(seq, e) ==
  IF Count(Tail(seq), e) = 0 THEN seq ELSE FromLast(Tail(seq), e)

\* The tokens were loaded from the file for the last refresh request: the
\* refresh token in memory was None when the refresh was asked for.
LoadedForRefresh ==
  \E i \in 1 .. (Len(trace) - 1) :
    /\ trace[i].ev = "read_config"
    /\ trace[i + 1].ev = "req_refresh"
    /\ Count(SubSeq(trace, i + 2, Len(trace)), "req_refresh") = 0

\* C21: a refresh answered by a failure envelope ends the run with the error
\* shown and logged; no request, no save and no sleep follows the refresh,
\* and the tokens in memory and in the file are those from before the
\* refresh was asked for.
C21_RefreshFailureTerminal ==
  RefreshRefused =>
    /\ status = 1
    /\ result.has_success /\ ~result.success
    /\ trace[Len(trace)] = Ev("log_error", "Update tokens fail")
    /\ cls # "CLIImgur" =>
         trace[Len(trace) - 1] = Ev("error_dialog", "Update tokens fail")
    /\ Only(FromLast(trace, "req_refresh"),
            {"req_albums", "req_upload", "req_refresh", "write_config", "sleep"})
         = << Ev("req_refresh", refresh_token) >>
    /\ ~LoadedForRefresh

NoRefreshToken ==
  "Can't read the value of refresh_token, you may have to authorize again"

\* The file holds a refresh token.
FileHasRefreshToken == config.Token /\ config.refresh_token # Missing

\* C22: a refresh asked for while the refresh token in memory is None loads
\* the file first; when the file holds no refresh token the run ends with
\* the fatal error and no request to the token endpoint; when it holds one,
\* the refresh request is sent with that token.
C22_RefreshPrecondition ==
  [][ (pc = "refresh" /\ refresh_token = None) =>
        /\ Len(trace') > Len(trace)
        /\ SubSeq(trace', 1, Len(trace)) = trace
        /\ trace'[Len(trace) + 1].ev = "read_config"
        /\ config' = config
        /\ IF FileHasRefreshToken
             THEN /\ trace' = trace \o << Ev("read_config", ""),
                                         Ev("req_refresh", config.refresh_token) >>
                  /\ refresh_token' = config.refresh_token
                  /\ pc' = "refresh_response"
             ELSE /\ pc' = "exit"
                  /\ status' = 1
                  /\ error' = NoRefreshToken
                  /\ Count(trace', "req_refresh") = Count(trace, "req_refresh")
                  /\ trace'[Len(trace')] = Ev("log_error", NoRefreshToken) ]_vars

\* A refresh was asked for with no refresh token in memory or in the file,
\* and the run ended with no request to the token endpoint.
C22_Witness ==
  /\ pc = "exit"
  /\ error = NoRefreshToken
  /\ refresh_token = None
  /\ Count(trace, "req_refresh") = 0
  /\ trace[Len(trace) - 1].ev \in {"read_config", "error_dialog"}

\* The run ended at the prompt for the image path: the user cancelled it.
ImagePromptCancelled ==
  /\ trace # <<>>
  /\ trace[Len(trace)].ev = "ask_image_path"

\* A run of upload() ended with status 1, the image prompt not cancelled.
FatalEnd ==
  /\ pc = "exit"
  /\ status = 1
  /\ cls # None
  /\ ~ImagePromptCancelled

\* C23: every run that ends with status 1, but for a cancelled image prompt,
\* went through show_error_and_exit: the error was shown (in a dialog, by the
\* classes that have one) and logged as the last thing before the exit.
C23_FatalPathsSurfaced ==
  FatalEnd =>
    /\ error # None
    /\ exc = None
    /\ trace[Len(trace)] = Ev("log_error", error)
    /\ cls # "CLIImgur" => trace[Len(trace) - 1] = Ev("error_dialog", error)

\* The album requests, the album prompt and the upload requests of the run.
AlbumSteps == Names(Only(trace, {"req_albums", "ask_album_id", "req_upload"}))

\* Album requests come first, then the prompt, then the upload requests.
Rank(name) ==
  CASE name = "req_albums" -> 1
    [] name = "ask_album_id" -> 2
    [] name = "req_upload" -> 3

\* In an authenticated run: the album list is requested before the one
\* prompt for the album, the prompt before the upload; an upload is sent
\* either with no list and no prompt or after both; the body has the
\* album_id field exactly when there is an album id.
AlbumOrder ==
  ~anonymous =>
    /\ LET steps == AlbumSteps
       IN \A i \in 1 .. (Len(steps) - 1) : Rank(steps[i]) <= Rank(steps[i + 1])
    /\ Count(trace, "ask_album_id") <= 1
    /\ Count(trace, "ask_album_id") = 1 => Count(trace, "req_albums") >= 1
    /\ Count(trace, "req_upload") >= 1 =>
         Count(trace, "ask_album_id") = 1 \/ Count(trace, "req_albums") = 0
    /\ body # NoBody =>
         body.fields = IF album_id # None
                         THEN << <<"album_id", album_id>> >> ELSE <<>>

\* C24: in the authenticated branch an album id given by the caller leads to
\* the upload with no album request and no album prompt; with none given,
\* request_album_list is executed once under retry, before the prompt for
\* the album, which comes before the upload request; the body has the
\* album_id field exactly when the album id resolved is not None.
C24_AlbumTargetResolution ==
  /\ []AlbumOrder
  /\ [][
      /\ (pc = "album" /\ album_id # None) =>
           /\ pc' = "encode"
           /\ trace' = trace
           /\ album_id' = album_id
      /\ (pc' = "encode" /\ pc = "album") => album_id # None
      /\ (pc = "album" /\ album_id = None) =>
           pc' = "f_retry" /\ trace' = trace /\ mtries' = tries
      /\ pc' = "album" => pc \in {"branch", "auth_response"}
      /\ pc' = "f_retry" =>
           \/ pc = "album" /\ album_id = None /\ Count(trace, "req_albums") = 0
           \/ pc = "f_reauthorized"
      /\ Count(trace', "req_albums") > Count(trace, "req_albums") =>
           pc = "f_retry"
      /\ Count(trace', "ask_album_id") > Count(trace, "ask_album_id") =>
           pc = "ask_album_id" /\ is_success(result) ]_vars

\* An upload was sent to the album the user picked from the list requested.
C24_Witness ==
  /\ ~anonymous
  /\ AlbumSteps = <<"req_albums", "req_albums", "ask_album_id", "req_upload">>
  /\ album_id = AlbumId(1)
  /\ body.fields = << <<"album_id", AlbumId(1)>> >>

\* ------------------------------------------- one call of the decorated
\* request_album_list: f_retry from its entry to its return or to the exit of
\* the process, every call and sleep returning.
InitRetry ==
  /\ pc = "f_retry"
  /\ status = -1
  /\ exc = None
  /\ cls \in Classes
  /\ tries \in 0 .. MaxTries
  /\ delay \in 1 .. MaxDelay
  /\ mtries = tries
  /\ image_path = "img.png"
  /\ anonymous = FALSE
  /\ album_id = None
  /\ config \in { c \in ConfigFiles :
                    c.access_token # Missing /\ c.refresh_token # Missing }
  /\ access_token = config.access_token
  /\ refresh_token = config.refresh_token
  /\ ret = None
  /\ result = NoResult
  /\ albums = <<>>
  /\ album_number = 0
  /\ data = <<>>
  /\ body = NoBody
  /\ headers = NoHeaders
  /\ shown = NotShown
  /\ error = None
  /\ trace = <<Ev("read_config", "")>>
  /\ sleeps = <<>>

NextRetry ==
  \/ request_album_list
  \/ \E r \in AlbumResponses : f_retry(r)
  \/ request_new_tokens_and_update
  \/ \E r \in TokenResponses : request_new_tokens_response(r)
  \/ \E writable \in BOOLEAN : f_retry_reauthorized(writable)

SpecRetry == InitRetry /\ [][NextRetry]_vars /\ WF_vars(NextRetry)

\* f_retry returned the albums, or the process ended.
Terminal == pc \in {"ask_album_id", "exit"}

\* C25 as stated: for every accepted tries, f_retry ends, by its return or by
\* the exit of the process, after at most tries calls of the function, and
\* nothing follows its end.
C25_TerminatesWithinTries ==
  /\ <>Terminal
  /\ [](Count(trace, "req_albums") <= tries)
  /\ [][~Terminal]_vars

\* C25, amended: the same with at most max(1, tries) calls: tries = 0 is
\* accepted and makes one call.
C25_Terminates ==
  /\ <>Terminal
  /\ [](Count(trace, "req_albums") <= IF tries = 0 THEN 1 ELSE tries)
  /\ [](Count(trace, "req_refresh") <= Count(trace, "req_albums"))
  /\ [](Terminal => /\ Count(trace, "req_albums") >= 1
                    /\ Count(trace, "sleep") < Count(trace, "req_albums"))
  /\ [][~Terminal]_vars

\* f_retry with tries = 0 returned after one call.
C25_Witness ==
  /\ pc = "ask_album_id"
  /\ tries = 0
  /\ Count(trace, "req_albums") = 1
  /\ Count(trace, "req_refresh") = 0

Spec == Init /\ [][Next]_vars

====
